---- MODULE Spec2Model ----
(***************************************************************************)
(* rogueinabox: the RogueBox session (src/rogueinabox.py) driving a rogue  *)
(* child process over a pseudo-terminal, with the part of RogueParser      *)
(* (src/parser.py) that reads the status row.                              *)
(*                                                                         *)
(* The 24x80 screen is kept as the parts the session code looks at:        *)
(*   top   the message row, screen[0]   ("none", "more" = '--More--',      *)
(*                                        "callit" = 'Call it')            *)
(*   body  rows 1..22                   ("blank", "map", "tomb")           *)
(*   st    how far the status row, screen[-1], is drawn                    *)
(*           "blank"  nothing (no 'Hp:')                                   *)
(*           "hp"     'Level: .. Hp: .. Arm: ..'   (no 'Exp:')             *)
(*           "expP"   .. 'Exp: 1'   ('Exp:' present, grammar incomplete)   *)
(*           "exp"    .. 'Exp: 1/0' (the status grammar matches)           *)
(*   cmd   the text after 'Cmd:' : NoCmd when 'Cmd:' is absent, else the   *)
(*         sequence of decimal digits drawn so far (possibly empty)        *)
(***************************************************************************)
EXTENDS Integers, Sequences, FiniteSets, TLC

\* ---------------------------------------------------------------- bounds
\* send_command calls that return a frame, per RogueBox
MaxCmds == 1
\* send_command calls made after one that raised with its keys written
MaxRetries == 1
\* child processes forked per RogueBox
MaxStarts == 2
\* keystrokes that fit in the pty input queue
MaxInq == 2
\* interstitial prompts the game shows per child
MaxPrompts == 2
\* simulated clock: poll iterations that make up the wait budget
\* (max_busy_wait_seconds / busy_wait_seconds, src/options.py:63)
MaxBusyWait == 2

\* the command counter after the steps of PlayOn: just below the value at
\* which it gets its second digit
Played == 8

\* the status row holds no 'Cmd:'
NoCmd == <<-1>>

\* ------------------------------------------------------- status row text
\* decimal digits of n, as str(n) draws them
RECURSIVE Digits(_)
Digits(n) == IF n < 10 THEN <<n>> ELSE Digits(n \div 10) \o <<n % 10>>

\* int(text) of a non-empty digit sequence
RECURSIVE ToInt(_)
ToInt(ds) ==
    IF Len(ds) = 0 THEN 0
    ELSE 10 * ToInt(SubSeq(ds, 1, Len(ds) - 1)) + ds[Len(ds)]

\* get_empty_screen: 24 rows of blanks
get_empty_screen == [top |-> "none", body |-> "blank", st |-> "blank", cmd |-> NoCmd]

\* 'Hp:' in screen[-1]
HasHp(s) == s.st \in {"hp", "expP", "exp"}
\* "Exp:" in screen[-1]
HasExp(s) == s.st \in {"expP", "exp"}
\* "Cmd" in screen[-1]
HasCmd(s) == s.cmd # NoCmd

\* RogueBox.game_over: the last row lacks 'Hp:'
game_over(s) == ~HasHp(s)

\* RogueBox._need_to_dismiss: "all it" or "ore--" in screen[0]
need_to_dismiss(s) == s.top = "callit" \/ s.top = "more"

\* RogueBox._dismiss_message: the bytes written for the prompt on screen[0]:
\* ' ' for '--More--'; for 'Call it' the literal '\e', which Python reads as
\* the two characters backslash and 'e' (it is no escape sequence)
dismiss_message(s) ==
    IF s.top = "more" THEN <<"space">>
    ELSE IF s.top = "callit" THEN <<"backslash", "e">>
    ELSE <<>>

\* RogueParser.get_cmd_count: int of the digits after 'Cmd:'; RuntimeError
\* when 'Cmd:' is absent (AttributeError) or no digit follows (ValueError)
get_cmd_count(s) ==
    IF s.cmd = NoCmd \/ Len(s.cmd) = 0
    THEN [raised |-> TRUE, val |-> 0]
    ELSE [raised |-> FALSE, val |-> ToInt(s.cmd)]

\* RogueParser.build_statusbar: the grammar matches when the row is drawn
\* through 'Exp: l/x'; command_count is int(digits), '' when no digit follows
\* 'Cmd:' (int('') fails, the text is kept), None when 'Cmd:' is absent
build_statusbar(s) ==
    IF s.st # "exp" THEN [is_empty |-> TRUE, cc_kind |-> "missing", command_count |-> 0]
    ELSE IF s.cmd = NoCmd THEN [is_empty |-> FALSE, cc_kind |-> "None", command_count |-> 0]
    ELSE IF Len(s.cmd) = 0 THEN [is_empty |-> FALSE, cc_kind |-> "str", command_count |-> 0]
    ELSE [is_empty |-> FALSE, cc_kind |-> "int", command_count |-> ToInt(s.cmd)]

\* RogueParser.parse_screen, the part the session uses: the status bar
parse_screen(s) == [statusbar |-> build_statusbar(s), screen |-> s]


\* ------------------------------------------------------------- variables
VARIABLES
    \* RogueBox fields
    pc,                      \* where the caller / the running method is
    refresh_after_commands,
    has_cmd_count,
    screen,                  \* self.screen (and the Terminal it is read from)
    frame_history,           \* self.frame_history, kept from its last frame on
    pid,                     \* self.pid; 0 while the attribute is not set
    old_cmd_count, expected_cmd_count, new_cmd_count,   \* _cmd_busy_wait locals
    result,                  \* how the last call ended
    \* operating system
    child,                   \* pid -> "unborn" | "alive" | "zombie" | "reaped"
    pipe_open,               \* pid -> the pty master of that child is open
    inq,                     \* keystrokes written and not yet read by the child
    \* the rogue process
    rogue_has_cmd,           \* the executable draws 'Cmd: n' in the status row
    game,                    \* [mode, count, prompt, dead, prompts, pend, written]:
                             \*   pend: output produced and not yet read by the
                             \*   session; its first `written` pieces are in the pty
    \* observation
    polls,                   \* simulated clock: loop turns of the wait, modulo
    ncmds,                   \* send_command calls that returned so far
    retries,                 \* send_command calls made after one that raised
    obs,                     \* facts about the wait in progress / the last one
    \* a RogueParser on its own
    parser,                  \* [pixel, environment_map, environment_dict, last_info]
    nparses,                 \* parse_screen calls so far
    presult,                 \* how the last call of the parser ended
    pobs,                    \* facts about the frames returned so far
    query,                   \* the call made on the last frame, and what it returned
    \* a RogueBox and its RogueEvaluator over their runs
    box,                     \* the RogueBox: what its constructor made, its counters
    evaluator,               \* the RogueEvaluator
    ret,                     \* the last call: its arguments and what it returned or raised
    robs,                    \* facts about the calls so far
    \* collaborators on their own
    terminal,                \* a Terminal and the RogueBox.screen read from it
    options,                 \* RogueOptions objects
    history,                 \* a FIFORandomPickHM and the file it saves to
    levels                   \* a LevelsRogueEvaluator

sessionVars == <<pc, refresh_after_commands, has_cmd_count, screen, frame_history, pid,
                 old_cmd_count, expected_cmd_count, new_cmd_count, result,
                 child, pipe_open, inq, rogue_has_cmd, game, polls, ncmds, retries, obs>>

parserVars == <<parser, nparses, presult, pobs, query>>

runVars == <<box, evaluator, ret, robs>>

\* the collaborators checked on their own
libVars == <<terminal, options, history, levels>>

vars == <<sessionVars, parserVars, runVars, libVars>>

boxVars == <<refresh_after_commands, has_cmd_count, screen, frame_history, pid,
             old_cmd_count, expected_cmd_count, new_cmd_count, result>>
waitVars == <<old_cmd_count, expected_cmd_count, new_cmd_count>>

Pids == 1..MaxStarts

\* obs: in_ctor       the running _start was called by __init__
\*      exit          how the last wait ended: "count", "gameover", "fixed"
\*      clean         every screen of the wait had 'Hp:' and no prompt
\*      dismissed     prompts the game took down during the wait
\*      prompt_turns  turns of the wait loop that found a prompt after the read
\*      low_read      the wait read a counter below the one it had accepted
\*      unfinished    keys of a command were written and its wait did not end
NoObs == [in_ctor |-> FALSE, exit |-> "none", clean |-> TRUE, dismissed |-> 0,
          low_read |-> FALSE, prompt_turns |-> 0, unfinished |-> FALSE]

\* ------------------------------------------------- the child's terminal
\* Terminal.feed, one piece of output applied to the screen
feed1(s, op) ==
    CASE op.op = "clear" -> get_empty_screen
      [] op.op = "top"   -> [s EXCEPT !.top = op.v]
      [] op.op = "body"  -> [s EXCEPT !.body = op.v]
      [] op.op = "st"    -> [s EXCEPT !.st = op.v]
      [] op.op = "cmd"   -> [s EXCEPT !.cmd = op.v]

\* Terminal.feed(data)
RECURSIVE feed(_, _)
feed(s, data) == IF data = <<>> THEN s ELSE feed(feed1(s, Head(data)), Tail(data))

\* the digits on screen while new is drawn over old, k digits done
Overlay(od, nd, k) == SubSeq(nd, 1, k) \o SubSeq(od, k + 1, Len(od))

\* first column in which the two digit strings differ
FirstDiff(od, nd) ==
    CHOOSE i \in 1..(Len(nd) + 1) :
        /\ (i = Len(nd) + 1 \/ i > Len(od) \/ od[i] # nd[i])
        /\ \A j \in 1..(i - 1) : j <= Len(od) /\ od[j] = nd[j]

\* curses redraws only the digits that changed, left to right
DigitOps(old, new) ==
    LET od == Digits(old)
        nd == Digits(new)
        f  == FirstDiff(od, nd)
    IN  [k \in 1..(Len(nd) + 1 - f) |-> [op |-> "cmd", v |-> Overlay(od, nd, f + k - 1)]]

\* the status row drawn from scratch, left to right
StatusOps(count) ==
    <<[op |-> "st", v |-> "hp"], [op |-> "st", v |-> "expP"], [op |-> "st", v |-> "exp"]>>
    \o (IF rogue_has_cmd
        THEN <<[op |-> "cmd", v |-> <<>>]>>
             \o [k \in 1..Len(Digits(count)) |->
                    [op |-> "cmd", v |-> SubSeq(Digits(count), 1, k)]]
        ELSE <<>>)

\* the whole screen cleared and drawn top to bottom (start, ^R)
FullRedraw(count) ==
    <<[op |-> "clear"], [op |-> "body", v |-> "map"]>> \o StatusOps(count)

\* the tombstone: no status row
Tombstone == <<[op |-> "clear"], [op |-> "body", v |-> "tomb"]>>

\* the child has written all the output it produced so far
GameFlush ==
    /\ UNCHANGED <<parserVars, runVars, libVars>>
    /\ pid # 0 /\ child[pid] = "alive"
    /\ game.written < Len(game.pend)
    /\ game' = [game EXCEPT !.written = Len(game.pend)]
    /\ UNCHANGED <<pc, boxVars, child, pipe_open, inq, rogue_has_cmd, polls, ncmds, retries, obs>>

\* the child, its output written, reads one keystroke and reacts to it
GameKey ==
    /\ UNCHANGED <<parserVars, runVars, libVars>>
    /\ pid # 0 /\ child[pid] = "alive"
    /\ game.mode = "rogue" /\ inq # <<>>
    /\ inq' = Tail(inq)
    /\ LET key == Head(inq)
           g == [game EXCEPT !.written = Len(game.pend)]
       IN
       \/ \* a prompt waits for its own key and swallows every other one
          /\ game.prompt = "more" /\ key = "space"
          /\ \E next \in {"none"} \cup (IF game.prompts < MaxPrompts THEN {"more"} ELSE {}) :
                game' = [g EXCEPT
                           !.prompt = next,
                           !.prompts = IF next = "more" THEN @ + 1 ELSE @,
                           !.pend = IF next = "none"
                                    THEN @ \o <<[op |-> "top", v |-> "none"]>> ELSE @]
          /\ obs' = [obs EXCEPT !.dismissed = @ + 1]
       \/ /\ game.prompt = "callit" /\ key = "esc"
          /\ game' = [g EXCEPT !.prompt = "none",
                               !.pend = @ \o <<[op |-> "top", v |-> "none"]>>]
          /\ obs' = [obs EXCEPT !.dismissed = @ + 1]
       \/ /\ \/ game.prompt = "more" /\ key # "space"
             \/ game.prompt = "callit" /\ key # "esc"
             \/ game.dead
             \/ game.prompt = "none" /\ key \in {"space", "backslash", "e", "esc"}
          /\ game' = g
          /\ UNCHANGED obs
       \/ \* an action: the counter grows by 1, or by 2 next to a monster
          /\ game.prompt = "none" /\ ~game.dead /\ key = "action"
          /\ \E inc \in {1, 2} :
             \/ \E p \in {"none"} \cup (IF game.prompts < MaxPrompts
                                        THEN {"more", "callit"} ELSE {}) :
                  game' = [g EXCEPT
                             !.count = @ + inc,
                             !.prompt = p,
                             !.prompts = IF p # "none" THEN @ + 1 ELSE @,
                             !.pend = @ \o (IF p # "none" THEN <<[op |-> "top", v |-> p]>>
                                            ELSE <<>>)
                                        \o (IF rogue_has_cmd
                                            THEN DigitOps(game.count, game.count + inc)
                                            ELSE <<>>)]
             \/ game' = [g EXCEPT !.count = @ + inc, !.dead = TRUE,
                                  !.pend = @ \o Tombstone]
          /\ UNCHANGED obs
       \/ \* ^R: the counter grows by 1 and the whole screen is drawn again
          /\ game.prompt = "none" /\ ~game.dead /\ key = "refresh"
          /\ game' = [g EXCEPT !.count = @ + 1,
                               !.pend = @ \o FullRedraw(game.count + 1)]
          /\ UNCHANGED obs
    /\ UNCHANGED <<pc, boxVars, child, pipe_open, rogue_has_cmd, polls, ncmds, retries>>

\* the child exits by itself: after the tombstone, or a program that never
\* was the game; output it had not written is never written
ChildExit ==
    /\ UNCHANGED <<parserVars, runVars, libVars>>
    /\ pid # 0 /\ child[pid] = "alive"
    /\ game.dead \/ game.mode = "silent"
    /\ child' = [child EXCEPT ![pid] = "zombie"]
    /\ game' = [game EXCEPT !.pend = SubSeq(@, 1, game.written)]
    /\ UNCHANGED <<pc, boxVars, pipe_open, inq, rogue_has_cmd, polls, ncmds, retries, obs>>

\* ------------------------------------------------------------ pty access
\* self.pipe.read(65536): k pieces of output, namely all that is in the pty
\* and possibly some the child is writing right now. With the child gone and
\* nothing left to read the call fails (EIO) or returns nothing, depending on
\* the platform; on a closed file it raises ValueError
ReadOutcomes ==
    IF ~pipe_open[pid] THEN {[err |-> "ValueError", k |-> 0]}
    ELSE IF child[pid] # "alive" /\ game.pend = <<>>
         THEN {[err |-> "OSError", k |-> 0], [err |-> "none", k |-> 0]}
    ELSE {[err |-> "none", k |-> k] : k \in game.written..Len(game.pend)}

\* RogueBox._update_screen: the screen after a read of k pieces ("if update:"
\* leaves it alone when nothing was read)
update_screen(k) == feed(screen, SubSeq(game.pend, 1, k))
\* what is left for the next read
AfterRead(k) == [game EXCEPT !.pend = SubSeq(@, k + 1, Len(@)), !.written = 0]

\* self.pipe.write(keys): "ok" queues the keys for the child
WriteOutcomes ==
    IF ~pipe_open[pid] THEN {"ValueError"}
    ELSE IF child[pid] # "alive" THEN {"OSError", "lost"}
    ELSE {"ok"}

\* an exception leaves the running method; one raised inside the constructor
\* leaves the caller without the object
Raise(e) ==
    /\ result' = e
    /\ pc' = IF obs.in_ctor THEN "gone" ELSE "idle"

\* the simulated clock after a loop turn that polled the pty: one more turn
\* (modulo, to keep it finite) while the wait goes on, 0 once it is left
AfterPoll(to) == IF to \in {"idle", "gone"} THEN 0 ELSE (polls + 1) % (MaxBusyWait + 2)
\* the same after a step that did not start a new turn
KeepPoll(to) == IF to \in {"idle", "gone"} THEN 0 ELSE polls

\* is_running that takes a child which has exited, but was not waited for, as
\* running
is_running_zombie == child[pid] \in {"alive", "zombie"}

\* ---------------------------------------------------------- start / stop
\* RogueBox.is_running: waitpid(pid, WNOHANG) returns 0 for a live child
is_running == child[pid] = "alive"
\* ... and reaps a child that has exited
AfterIsRunning == IF child[pid] = "zombie" THEN [child EXCEPT ![pid] = "reaped"] ELSE child

\* stop() that leaves a running child running
StopChild_nokill == AfterIsRunning

\* RogueBox.stop: a running child gets SIGTERM and is waited for; otherwise
\* nothing happens but the reaping done by is_running
StopChild == IF is_running THEN [child EXCEPT ![pid] = "reaped"] ELSE AfterIsRunning
\* RogueBox.stop: self.pipe.close(), for a running child only
StopPipe == IF is_running THEN [pipe_open EXCEPT ![pid] = FALSE] ELSE pipe_open
\* RogueBox.stop: os.kill(self.pid, SIGTERM) is called
StopKills == is_running

\* _start up to its wait: open_terminal forks the child on a new pty with a
\* new Terminal, is_running finds it alive, the screen is the empty one.
\* ch, po: the children and pipes as stop() left them
open_terminal(ch, po) ==
    /\ pid < MaxStarts
    /\ pid' = pid + 1
    /\ child' = [ch EXCEPT ![pid + 1] = "alive"]
    /\ pipe_open' = [po EXCEPT ![pid + 1] = TRUE]
    /\ inq' = <<>>
    /\ screen' = get_empty_screen
    /\ \E mode \in {"rogue", "silent"} :
          game' = [mode |-> mode, count |-> 0, prompt |-> "none", dead |-> FALSE,
                   prompts |-> 0, written |-> 0,
                   pend |-> IF mode = "rogue" THEN FullRedraw(0) ELSE <<>>]
    /\ polls' = 0
    /\ pc' = "start_wait"

\* RogueBox.__init__
Construct ==
    /\ UNCHANGED <<parserVars, runVars, libVars>>
    /\ pc = "new"
    /\ \E start_game \in BOOLEAN :
          IF start_game
          THEN /\ open_terminal(child, pipe_open)
               /\ obs' = [NoObs EXCEPT !.in_ctor = TRUE]
          ELSE /\ pc' = "idle"
               /\ UNCHANGED <<pid, child, pipe_open, inq, screen, game, polls, obs>>
    /\ UNCHANGED <<refresh_after_commands, has_cmd_count, frame_history, waitVars,
                   result, rogue_has_cmd, ncmds, retries>>

\* RogueBox.reset: stop(), then _start()
reset ==
    /\ UNCHANGED <<parserVars, runVars, libVars>>
    /\ pc = "idle"
    /\ IF pid = 0
       THEN /\ Raise("AttributeError")
            /\ UNCHANGED <<pid, child, pipe_open, inq, screen, game, polls, obs>>
       ELSE /\ open_terminal(StopChild, StopPipe)
            /\ obs' = NoObs
            /\ UNCHANGED result
    /\ UNCHANGED <<refresh_after_commands, has_cmd_count, frame_history, waitVars,
                   rogue_has_cmd, ncmds, retries>>

\* RogueBox.stop
stop ==
    /\ UNCHANGED <<parserVars, runVars, libVars>>
    /\ pc = "idle"
    /\ IF pid = 0
       THEN /\ Raise("AttributeError")
            /\ UNCHANGED <<child, pipe_open>>
       ELSE /\ child' = StopChild
            /\ pipe_open' = StopPipe
            /\ result' = "ok"
            /\ pc' = "idle"
    /\ UNCHANGED <<refresh_after_commands, has_cmd_count, screen, frame_history, pid,
                   waitVars, inq, rogue_has_cmd, game, polls, ncmds, retries, obs>>

\* RogueBox._start, one turn of "while not 'Exp:' in self.screen[-1]", and
\* the rest of _start once the status row shows 'Exp:'
StartPoll ==
    /\ UNCHANGED <<parserVars, runVars, libVars>>
    /\ pc = "start_wait"
    /\ \E r \in ReadOutcomes :
          IF r.err # "none"
          THEN /\ Raise(r.err)
               /\ UNCHANGED <<screen, game, has_cmd_count, frame_history>>
          ELSE /\ screen' = update_screen(r.k)
               /\ game' = AfterRead(r.k)
               /\ IF HasExp(screen')
                  THEN /\ has_cmd_count' = (has_cmd_count \/ HasCmd(screen'))
                       /\ frame_history' = <<parse_screen(screen')>>
                       /\ result' = "ok"
                       /\ pc' = "idle"
                  ELSE UNCHANGED <<has_cmd_count, frame_history, result, pc>>
    /\ polls' = AfterPoll(pc')
    /\ obs' = [obs EXCEPT !.in_ctor = (pc' = "start_wait" /\ @)]
    /\ UNCHANGED <<refresh_after_commands, pid, waitVars, child, pipe_open, inq,
                   rogue_has_cmd, ncmds, retries>>

\* ----------------------------------------------------------- send_command
\* the increment with its condition the wrong way round
cmd_increment_swapped == IF refresh_after_commands THEN 1 ELSE 2

\* _cmd_busy_wait: cmd_increment = 1 if not self.refresh_after_commands else 2
cmd_increment == IF ~refresh_after_commands THEN 1 ELSE 2

\* the test without its refresh_after_commands part
lower_expected_any(s) == need_to_dismiss(s)

\* _cmd_busy_wait: the test that lowers expected_cmd_count in a loop turn
lower_expected(s) == refresh_after_commands /\ need_to_dismiss(s)

\* the counter taken as read, lower or not
accept_count_any(c, bak) == IF c.raised THEN bak ELSE c.val

\* _cmd_busy_wait: the counter kept after get_cmd_count: the old one when
\* the read raised RuntimeError or gave a lower value
accept_count(c, bak) == IF c.raised \/ c.val < bak THEN bak ELSE c.val

\* the locals of _cmd_busy_wait are gone once it is left
DropLocals == old_cmd_count' = 0 /\ expected_cmd_count' = 0 /\ new_cmd_count' = 0

\* an exception raised inside the wait of send_command
RaiseInWait(e) ==
    /\ Raise(e)
    /\ DropLocals
    /\ obs' = [NoObs EXCEPT !.unfinished = obs.unfinished]

\* the end of send_command once the wait is over: the screen s is parsed and
\* appended to frame_history, of which only the last frame is ever read again
Finish(s, how) ==
    /\ frame_history' = <<parse_screen(s)>>
    /\ result' = "ok"
    /\ pc' = "idle"
    /\ ncmds' = ncmds + 1
    /\ DropLocals
    /\ obs' = [NoObs EXCEPT !.exit = how,
                            !.clean = (obs.clean /\ HasHp(s) /\ ~need_to_dismiss(s))]

\* _cmd_busy_wait, the loop turn from game_over() on, the screen s having
\* been updated and the messages dismissed: break on game over, take the
\* counter unless it is lower or unreadable, and test the loop condition.
\* expected: expected_cmd_count as the turn left it
BusyTail(s, expected) ==
    IF game_over(s)
    THEN Finish(s, "gameover")
    ELSE LET c == get_cmd_count(s)
             n == accept_count(c, new_cmd_count)
         IN  IF n < expected
             THEN /\ pc' = "bw_loop"
                  /\ new_cmd_count' = n
                  /\ expected_cmd_count' = expected
                  /\ obs' = [obs EXCEPT
                               !.clean = (@ /\ HasHp(s) /\ ~need_to_dismiss(s)),
                               !.low_read = (@ \/ (~c.raised /\ c.val < new_cmd_count))]
                  /\ UNCHANGED <<old_cmd_count, frame_history, result, ncmds>>
             ELSE Finish(s, "count")

\* send_command up to the wait: the command and, if asked for, ^R are
\* written; then the first lines of _cmd_busy_wait, or the sleep
send_command ==
    /\ UNCHANGED <<parserVars, runVars, libVars>>
    /\ pc = "idle"
    /\ ncmds < MaxCmds
    /\ polls' = 0
    /\ IF pid = 0
       THEN /\ result' = "AttributeError" /\ pc' = "idle"
            /\ UNCHANGED <<inq, waitVars, obs, retries>>
       ELSE \E w \in WriteOutcomes :
            LET keys == <<"action">> \o
                        (IF refresh_after_commands THEN <<"refresh">> ELSE <<>>)
                last == frame_history[Len(frame_history)].statusbar
            IN
            /\ obs.unfinished => retries < MaxRetries
            /\ retries' = IF obs.unfinished THEN retries + 1 ELSE retries
            /\ w = "ok" => Len(inq) + Len(keys) <= MaxInq
            /\ inq' = IF w = "ok" THEN inq \o keys ELSE inq
            /\ obs' = [NoObs EXCEPT !.unfinished = (obs.unfinished \/ w = "ok")]
            /\ IF w \in {"ValueError", "OSError"}
               THEN /\ result' = w /\ pc' = "idle" /\ UNCHANGED waitVars
               ELSE IF ~has_cmd_count
               THEN /\ pc' = "fd_read" /\ UNCHANGED <<result, waitVars>>
               ELSE IF frame_history = <<>>
               THEN /\ result' = "AttributeError" /\ pc' = "idle" /\ UNCHANGED waitVars
               ELSE IF last.is_empty
               THEN /\ result' = "KeyError" /\ pc' = "idle" /\ UNCHANGED waitVars
               ELSE IF last.cc_kind # "int"
               THEN /\ result' = "TypeError" /\ pc' = "idle" /\ UNCHANGED waitVars
               ELSE /\ old_cmd_count' = last.command_count
                    /\ expected_cmd_count' = last.command_count + cmd_increment
                    /\ new_cmd_count' = last.command_count
                    /\ pc' = "bw_loop"
                    /\ UNCHANGED result
    /\ UNCHANGED <<refresh_after_commands, has_cmd_count, screen, frame_history, pid,
                   child, pipe_open, rogue_has_cmd, game, ncmds>>

\* _cmd_busy_wait, one loop turn up to _dismiss_all_messages
BusyPoll ==
    /\ UNCHANGED <<parserVars, runVars, libVars>>
    /\ pc = "bw_loop"
    /\ \E r \in ReadOutcomes :
          IF r.err # "none"
          THEN /\ RaiseInWait(r.err)
               /\ UNCHANGED <<screen, game, frame_history, ncmds>>
          ELSE /\ screen' = update_screen(r.k)
               /\ game' = AfterRead(r.k)
               /\ LET expected == IF lower_expected(screen')
                                  THEN expected_cmd_count - 1
                                  ELSE expected_cmd_count
                  IN  IF need_to_dismiss(screen')
                      THEN /\ pc' = "dismiss_w"
                           /\ expected_cmd_count' = expected
                           /\ obs' = [obs EXCEPT !.clean = FALSE, !.prompt_turns = @ + 1]
                           /\ UNCHANGED <<old_cmd_count, new_cmd_count, frame_history,
                                          result, ncmds>>
                      ELSE BusyTail(screen', expected)
    /\ polls' = AfterPoll(pc')
    /\ UNCHANGED <<refresh_after_commands, has_cmd_count, pid, child, pipe_open, inq,
                   rogue_has_cmd, retries>>

\* the fixed-delay wait: time.sleep(0.01), one _update_screen
FixedRead ==
    /\ UNCHANGED <<parserVars, runVars, libVars>>
    /\ pc = "fd_read"
    /\ \E r \in ReadOutcomes :
          IF r.err # "none"
          THEN /\ RaiseInWait(r.err)
               /\ UNCHANGED <<screen, game, frame_history, ncmds>>
          ELSE /\ screen' = update_screen(r.k)
               /\ game' = AfterRead(r.k)
               /\ IF need_to_dismiss(screen')
                  THEN /\ pc' = "dismiss_w"
                       /\ UNCHANGED <<waitVars, frame_history, result, obs, ncmds>>
                  ELSE Finish(screen', "fixed")
    /\ UNCHANGED <<refresh_after_commands, has_cmd_count, pid, child, pipe_open,
                   inq, rogue_has_cmd, polls, retries>>

\* _dismiss_all_messages, one loop turn: _dismiss_message writes the key(s)
DismissWrite ==
    /\ UNCHANGED <<parserVars, runVars, libVars>>
    /\ pc = "dismiss_w"
    /\ \E w \in WriteOutcomes :
       LET keys == dismiss_message(screen) IN
       /\ w = "ok" => Len(inq) + Len(keys) <= MaxInq
       /\ inq' = IF w = "ok" THEN inq \o keys ELSE inq
       /\ IF w \in {"ValueError", "OSError"}
          THEN RaiseInWait(w)
          ELSE /\ pc' = "dismiss_r" /\ UNCHANGED <<result, waitVars, obs>>
    /\ polls' = KeepPoll(pc')
    /\ UNCHANGED <<refresh_after_commands, has_cmd_count, screen, frame_history, pid,
                   child, pipe_open, rogue_has_cmd, game, ncmds, retries>>

\* _dismiss_all_messages, the _update_screen of the turn and the loop test;
\* with no message left the caller goes on
DismissRead ==
    /\ UNCHANGED <<parserVars, runVars, libVars>>
    /\ pc = "dismiss_r"
    /\ \E r \in ReadOutcomes :
          IF r.err # "none"
          THEN /\ RaiseInWait(r.err)
               /\ UNCHANGED <<screen, game, frame_history, ncmds>>
          ELSE /\ screen' = update_screen(r.k)
               /\ game' = AfterRead(r.k)
               /\ IF need_to_dismiss(screen')
                  THEN /\ pc' = "dismiss_w"
                       /\ UNCHANGED <<waitVars, frame_history, result, obs, ncmds>>
                  ELSE IF has_cmd_count
                  THEN BusyTail(screen', expected_cmd_count)
                  ELSE Finish(screen', "fixed")
    /\ polls' = KeepPoll(pc')
    /\ UNCHANGED <<refresh_after_commands, has_cmd_count, pid, child, pipe_open, inq,
                   rogue_has_cmd, retries>>

\* send_command called again and again on a quiet game: each wait ends on the
\* finished screen of its command, until the counter shows Played. The steps
\* in between are not kept: the session is left as the last of them leaves it
PlayOn ==
    /\ UNCHANGED <<parserVars, runVars, libVars>>
    /\ pc = "idle" /\ result = "ok" /\ ncmds = 0
    /\ pid # 0 /\ child[pid] = "alive" /\ has_cmd_count
    /\ game.mode = "rogue" /\ ~game.dead /\ game.prompt = "none" /\ game.count = 0
    /\ inq = <<>> /\ game.pend = <<>>
    /\ screen.top = "none" /\ screen.st = "exp" /\ screen.cmd = Digits(game.count)
    /\ frame_history = <<parse_screen(screen)>>
    /\ game' = [game EXCEPT !.count = Played]
    /\ screen' = [screen EXCEPT !.cmd = Digits(Played)]
    /\ frame_history' = <<parse_screen(screen')>>
    /\ UNCHANGED <<pc, refresh_after_commands, has_cmd_count, pid, waitVars, result,
                   child, pipe_open, inq, rogue_has_cmd, polls, ncmds, retries, obs>>

\* ------------------------------------------------------------ RogueParser
\* parse_screen calls per parser
MaxParses == 3

\* the cells of rows 1..22 in which the screens differ, in scan order, and the
\* dungeon levels the status row shows
Cells == {1, 2}
Levels == {1, 2}

\* RogueParser.tiles_types_dict, in full
all_tiles_types ==
    [environment |-> {"#", "+", ".", "%", "-", "|"},
     items |-> {"^", "*", "!", "?", "$", ":", ")", "]", ",", "=", "/"},
     monsters |-> {"K", "E", "B", "S", "H", "I", "R", "O", "Z", "L", "C", "Q", "A",
                   "N", "Y", "F", "T", "W", "P", "X", "U", "M", "V", "G", "J", "D"},
     agents |-> {"@"}]

\* parse_screen, the loop: the branch of the if/elif chain a glyph takes
tile_category(pixel) ==
    IF pixel \in all_tiles_types.environment THEN "environment"
    ELSE IF pixel \in all_tiles_types.items THEN "items"
    ELSE IF pixel \in all_tiles_types.agents THEN "agents"
    ELSE IF pixel \in all_tiles_types.monsters THEN "monsters"
    ELSE "none"

\* RogueParser.tiles_types_dict, some glyphs of each type
tiles_types_dict ==
    [environment |-> {".", "#"}, items |-> {"!"}, monsters |-> {"K"}, agents |-> {"@"}]

\* the glyphs the screens show here: terrain and the rogue
Glyphs == {" "} \cup tiles_types_dict.environment \cup tiles_types_dict.agents

\* the screens given to parse_screen: the last row is a status row showing a
\* dungeon level, or has none (tombstone, inventory); rows: the cells
PScreens ==
    {[top |-> "none", body |-> "map", st |-> "exp", cmd |-> NoCmd,
      level |-> l, rows |-> r] : l \in Levels, r \in [Cells -> Glyphs]}
    \cup
    {[top |-> "none", body |-> "tomb", st |-> "blank", cmd |-> NoCmd,
      level |-> 0, rows |-> [c \in Cells |-> " "]]}

\* RogueParser.empty_environment_map
empty_environment_map == [c \in Cells |-> " "]

\* RogueParser._build_type_dict(key): an empty position list per glyph
build_type_dict(key) == [g \in tiles_types_dict[key] |-> <<>>]

\* a pixel dict: its keys and the position lists under them
PixelDict(keys, agents, monsters, items, environment) ==
    [keys |-> keys, agents |-> agents, monsters |-> monsters, items |-> items,
     environment |-> environment]

\* RogueParser._build_pixel_dict
build_pixel_dict ==
    PixelDict({"environment", "items", "monsters", "agents"}, build_type_dict("agents"),
              build_type_dict("monsters"), build_type_dict("items"),
              build_type_dict("environment"))

\* {} and [[]]
EmptyPixel == PixelDict({}, <<>>, <<>>, <<>>, <<>>)
EmptyMap == <<>>

\* RogueFrameInfo(pixel, map, statusbar, screen); same: which of the frame's
\* objects are the very objects the parser holds ("pixel": frame.pixel is
\* parser.pixel, "map": frame.map is parser.environment_map, "environment":
\* frame.pixel["environment"] is parser.environment_dict)
RogueFrameInfo(pixel, map, statusbar, scr, same) ==
    [none |-> FALSE, pixel |-> pixel, map |-> map, statusbar |-> statusbar,
     screen |-> scr, same |-> same]

\* None
NoFrame ==
    [none |-> TRUE, pixel |-> EmptyPixel, map |-> EmptyMap,
     statusbar |-> [is_empty |-> TRUE, dungeon_level |-> 0],
     screen |-> get_empty_screen, same |-> {}]

\* a frame after the parser has bound the attributes in rebound to new objects
\* and written to the objects it holds, ending as p: the frame sees the writes
\* to the objects it has in common with the parser
Seen(f, rebound, p) ==
    LET same == f.same \ rebound
        px == IF "pixel" \in same THEN p.pixel ELSE f.pixel
    IN  [f EXCEPT !.same = same,
                  !.map = IF "map" \in same THEN p.environment_map ELSE @,
                  !.pixel = IF "environment" \in same
                            THEN [px EXCEPT !.environment = p.environment_dict]
                            ELSE px]

\* what the caller reads in a frame
FrameValue(f) == [map |-> f.map, pixel |-> f.pixel]

\* prev_level, prev_map: the dungeon level and the map of the latest frame with
\* a status bar since the last reset (0: none); streak: the last two calls
\* both returned a frame with a status bar, of the same level; held: a frame
\* the caller has kept; resets: the reset() calls in a row, up to two
NoPObs == [prev_level |-> 0, prev_map |-> EmptyMap, streak |-> FALSE,
           held |-> NoFrame, resets |-> 0]

\* a position: None, or the tuple (x, y)
None == [none |-> TRUE, x |-> 0, y |-> 0]
At(x, y) == [none |-> FALSE, x |-> x, y |-> y]
\* the tuple (i, j) appended for cell c: the cells are the first ones of map
\* row 0
CellPos(c) == At(0, c - 1)

\* no call on the frame yet
NoQuery == [op |-> "none", pos |-> None, ret_pos |-> None, ret_tile |-> " ", ret_count |-> 0]

\* RogueParser.__init__: only last_info is set (attrs: the attributes set)
ParserNew ==
    /\ parser = [attrs |-> {"last_info"}, pixel |-> EmptyPixel,
                 environment_map |-> EmptyMap, environment_dict |-> <<>>,
                 last_info |-> NoFrame]
    /\ nparses = 0
    /\ presult = "none"
    /\ pobs = NoPObs
    /\ query = NoQuery

\* a reset that leaves last_info alone
keep_last_info(p) == p.last_info

\* RogueParser.reset: self.last_info = None
reset_last_info(p) == NoFrame

\* RogueParser.reset
ParserReset ==
    /\ parser' = [attrs |-> {"last_info", "pixel", "environment_map", "environment_dict"},
                  pixel |-> build_pixel_dict,
                  environment_map |-> empty_environment_map,
                  environment_dict |-> build_type_dict("environment"),
                  last_info |-> reset_last_info(parser)]
    /\ presult' = "ok"
    /\ pobs' = [prev_level |-> 0, prev_map |-> EmptyMap, streak |-> FALSE,
                held |-> Seen(pobs.held, {"pixel", "map", "environment"}, parser'),
                resets |-> IF pobs.resets = 0 THEN 1 ELSE 2]
    /\ query = NoQuery
    /\ UNCHANGED <<nparses, query, sessionVars, runVars, libVars>>

\* parse_screen: the dungeon level read from the status row, with
\* build_statusbar's is_empty
new_statusbar(s) ==
    [is_empty |-> build_statusbar(s).is_empty,
     dungeon_level |-> IF build_statusbar(s).is_empty THEN 0 ELSE s.level]

\* parse_screen: old_level
old_level(p) ==
    IF ~p.last_info.none /\ ~p.last_info.statusbar.is_empty
    THEN p.last_info.statusbar.dungeon_level
    ELSE 1

\* the cells in scan order
CellSeq == [c \in Cells |-> c]

\* a loop that takes every glyph for one of the type
positions_of_any(rows, key, upto) ==
    [g \in tiles_types_dict[key] |->
        SelectSeq(CellSeq, LAMBDA c : c <= upto /\ rows[c] # " ")]

\* parse_screen, the loop, for the items, monsters or agents: the positions
\* of each glyph of the type among the cells scanned, up to cell upto
positions(rows, key, upto) ==
    [g \in tiles_types_dict[key] |->
        SelectSeq(CellSeq, LAMBDA c : c <= upto /\ rows[c] = g)]

\* a loop that takes every environment glyph it sees
is_anything(tile) == tile = tile

\* parse_screen, the loop: whether an environment glyph is taken into the map
\* and the index
is_unknown(tile) == tile = " "

\* parse_screen, the loop, for the environment
RECURSIVE scan_environment(_, _, _, _)
scan_environment(m, d, rows, c) ==
    IF c \notin Cells THEN [map |-> m, dict |-> d]
    ELSE IF rows[c] \in tiles_types_dict.environment /\ is_unknown(m[c])
    THEN scan_environment([m EXCEPT ![c] = rows[c]],
                          [d EXCEPT ![rows[c]] = Append(@, c)], rows, c + 1)
    ELSE scan_environment(m, d, rows, c + 1)

\* the cells scanned before the first environment glyph (all, if there is none)
BeforeEnvironment(rows) ==
    IF \E c \in Cells : rows[c] \in tiles_types_dict.environment
    THEN (CHOOSE c \in Cells : /\ rows[c] \in tiles_types_dict.environment
                               /\ \A b \in Cells : b < c =>
                                      rows[b] \notin tiles_types_dict.environment) - 1
    ELSE Cardinality(Cells)

\* a copy that is the object itself
no_copy(x) == [val |-> x, same |-> TRUE]

\* copy.deepcopy(x): an equal value in a new object
deepcopy(x) == [val |-> x, same |-> FALSE]

\* RogueParser.parse_screen(s); the caller may keep the frame of the call before
ParserParse ==
    /\ nparses < MaxParses
    /\ nparses' = nparses + 1
    /\ \E s \in PScreens : \E hold \in BOOLEAN :
       LET bar == new_statusbar(s)
           old == old_level(parser)
           keep == IF hold /\ pobs.held.none THEN parser.last_info ELSE pobs.held
       IN
       IF bar.is_empty
       THEN \* a screen without status bar
            /\ parser' = [parser EXCEPT !.last_info =
                             RogueFrameInfo(EmptyPixel, EmptyMap,
                                            [bar EXCEPT !.dungeon_level = old], s, {})]
            /\ presult' = "ok"
            /\ pobs' = [pobs EXCEPT !.held = keep, !.resets = 0, !.streak = FALSE]
       ELSE
            LET changed == bar.dungeon_level # old
                rebound == {"pixel"} \cup (IF changed THEN {"map", "environment"} ELSE {})
                m0 == IF changed THEN empty_environment_map ELSE parser.environment_map
                d0 == IF changed THEN build_type_dict("environment")
                      ELSE parser.environment_dict
            IN
            IF ~changed /\ "environment_map" \notin parser.attrs
            THEN \* environment_map and environment_dict were never set: the
                 \* loop or the deepcopy after it raises AttributeError
                 LET upto == BeforeEnvironment(s.rows)
                 IN  /\ parser' = [parser EXCEPT
                            !.attrs = @ \cup {"pixel"},
                            !.pixel = PixelDict({"items", "monsters", "agents"},
                                                positions(s.rows, "agents", upto),
                                                positions(s.rows, "monsters", upto),
                                                positions(s.rows, "items", upto), <<>>),
                            !.last_info = Seen(@, rebound, parser)]
                     /\ presult' = "AttributeError"
                     /\ pobs' = [pobs EXCEPT !.held = Seen(keep, rebound, parser),
                                             !.resets = 0, !.streak = FALSE]
            ELSE LET env == scan_environment(m0, d0, s.rows, 1)
                     pe == deepcopy(env.dict)
                     fm == deepcopy(env.map)
                     px == PixelDict({"environment", "items", "monsters", "agents"},
                                     positions(s.rows, "agents", Cardinality(Cells)),
                                     positions(s.rows, "monsters", Cardinality(Cells)),
                                     positions(s.rows, "items", Cardinality(Cells)),
                                     pe.val)
                     same == {"pixel"} \cup (IF pe.same THEN {"environment"} ELSE {})
                                       \cup (IF fm.same THEN {"map"} ELSE {})
                 IN  /\ parser' = [attrs |-> parser.attrs \cup
                                       {"pixel", "environment_map", "environment_dict"},
                                   pixel |-> px,
                                   environment_map |-> env.map,
                                   environment_dict |-> env.dict,
                                   last_info |-> RogueFrameInfo(px, fm.val, bar, s, same)]
                     /\ presult' = "ok"
                     /\ pobs' = [prev_level |-> bar.dungeon_level,
                                 prev_map |-> fm.val,
                                 streak |-> (~parser.last_info.none
                                             /\ ~parser.last_info.statusbar.is_empty
                                             /\ ~changed),
                                 held |-> Seen(keep, rebound, parser'),
                                 resets |-> 0]
    /\ query = NoQuery
    /\ UNCHANGED <<query, sessionVars, runVars, libVars>>

\* ---------------------------------------------------------- RogueFrameInfo
\* Python's seq[i]: indexes from 0, negative ones count from the end
py_in_range(seq, i) == -Len(seq) <= i /\ i < Len(seq)
py_index(seq, i) == IF i >= 0 THEN seq[i + 1] ELSE seq[Len(seq) + i + 1]

\* frame.map as a list of rows: the cells are row 0, [[]] has an empty row 0
MapRows(f) == <<f.map>>

\* RogueFrameInfo.get_environment_tile_at: "x, y = pos" raises TypeError for
\* None, self.map[x][y] raises IndexError out of range; both give ' '
get_environment_tile_at(f, pos) ==
    IF pos.none THEN " "
    ELSE IF ~py_in_range(MapRows(f), pos.x) THEN " "
    ELSE IF ~py_in_range(py_index(MapRows(f), pos.x), pos.y) THEN " "
    ELSE py_index(py_index(MapRows(f), pos.x), pos.y)

\* get_player_pos that answers the origin when there is no rogue
get_player_pos_origin(f, default) ==
    IF "agents" \notin f.pixel.keys \/ f.pixel.agents["@"] = <<>> THEN At(0, 0)
    ELSE CellPos(f.pixel.agents["@"][1])

\* RogueFrameInfo.get_player_pos: self.pixel["agents"]["@"][0], the default
\* on KeyError and IndexError
get_player_pos(f, default) ==
    IF "agents" \notin f.pixel.keys THEN default
    ELSE IF f.pixel.agents["@"] = <<>> THEN default
    ELSE CellPos(f.pixel.agents["@"][1])

\* RogueFrameInfo.get_list_of_positions_by_type: the union of the position
\* lists of the type's glyphs, [] on KeyError
get_list_of_positions_by_type(f, tile_type) ==
    IF tile_type \notin f.pixel.keys THEN {}
    ELSE UNION {{f.pixel[tile_type][g][k] : k \in DOMAIN f.pixel[tile_type][g]} :
                    g \in DOMAIN f.pixel[tile_type]}

\* RogueFrameInfo.get_known_tiles_count: the sum over the keys of self.pixel
get_known_tiles_count(f) ==
    LET n(tile_type) == IF tile_type \in f.pixel.keys
                        THEN Cardinality(get_list_of_positions_by_type(f, tile_type))
                        ELSE 0
    IN  n("environment") + n("items") + n("monsters") + n("agents")

\* the coordinates and defaults the caller passes
QueryRows == {-1, 0, 1}
QueryCols == {-1, 0, 2}
QueryPositions == {None} \cup {At(x, y) : x \in QueryRows, y \in QueryCols}
Defaults == {None, At(1, 1)}

\* the caller calls a method of the frame parse_screen returned last; the
\* methods change nothing, so the calls are looked at one by one, for a
\* caller that has kept no older frame
CanQuery == query = NoQuery /\ ~parser.last_info.none /\ pobs.held.none

GetEnvironmentTileAt ==
    /\ CanQuery
    /\ \E pos \in QueryPositions :
          query' = [NoQuery EXCEPT !.op = "get_environment_tile_at", !.pos = pos,
                       !.ret_tile = get_environment_tile_at(parser.last_info, pos)]
    /\ UNCHANGED <<parser, nparses, presult, pobs, sessionVars, runVars, libVars>>

GetPlayerPos ==
    /\ CanQuery
    /\ \E default \in Defaults :
          query' = [NoQuery EXCEPT !.op = "get_player_pos", !.pos = default,
                       !.ret_pos = get_player_pos(parser.last_info, default)]
    /\ UNCHANGED <<parser, nparses, presult, pobs, sessionVars, runVars, libVars>>

GetKnownTilesCount ==
    /\ CanQuery
    /\ query' = [NoQuery EXCEPT !.op = "get_known_tiles_count",
                     !.ret_count = get_known_tiles_count(parser.last_info)]
    /\ UNCHANGED <<parser, nparses, presult, pobs, sessionVars, runVars, libVars>>

\* ----------------------------------------------------------- RogueEvaluator
\* runs begun and episodes added per evaluator, steps taken per evaluator
MaxRuns == 3
MaxSteps == 2
\* the largest max_step_count and episodes_for_evaluation given
MaxStepCount == 2
MaxWindow == 2

\* the rewards the reward generator computes, the tile counts of a frame
Rewards == {0, 1}
TileCounts == {2}

\* Episode()
Episode == [won |-> FALSE, steps |-> 0, final_tiles_count |-> 0, total_reward |-> 0]

\* no evaluator yet
NoEvaluator ==
    [made |-> FALSE, max_step_count |-> 0, episodes_for_evaluation |-> 0,
     objs |-> <<>>, episodes |-> <<>>, current_episode |-> 0]

\* RogueEvaluator.__init__; efe = 0 stands for the falsy values (0, None),
\* which "episodes_for_evaluation or None" turns into None: a deque without
\* maxlen. objs: the Episode objects made so far; episodes and
\* current_episode refer to them by their place in objs (0: None)
RogueEvaluator(max_step_count, efe) ==
    [made |-> TRUE, max_step_count |-> max_step_count, episodes_for_evaluation |-> efe,
     objs |-> <<>>, episodes |-> <<>>, current_episode |-> 0]

\* a deque that, once full, refuses what is appended
deque_append_keep_old(q, x, maxlen) ==
    IF maxlen # 0 /\ Len(q) >= maxlen THEN q ELSE Append(q, x)

\* collections.deque(maxlen=...).append: a full deque drops its leftmost item
deque_append(q, x, maxlen) ==
    IF maxlen # 0 /\ Len(q) >= maxlen THEN Append(Tail(q), x) ELSE Append(q, x)

\* the steps recorded in the first n Episode objects
RECURSIVE StepsIn(_, _)
StepsIn(objs, n) == IF n = 0 THEN 0 ELSE objs[n].steps + StepsIn(objs, n - 1)

\* RogueEvaluator.reset
evaluator_reset(e) == [e EXCEPT !.episodes = <<>>, !.current_episode = 0]

\* RogueEvaluator.on_run_begin
on_run_begin(e) ==
    [e EXCEPT !.objs = Append(@, Episode), !.current_episode = Len(e.objs) + 1]

\* RogueEvaluator.on_step: the evaluator after it, and the value returned
on_step(e, reward) ==
    LET ep == [e.objs[e.current_episode] EXCEPT !.steps = @ + 1,
                                                !.total_reward = @ + reward]
    IN  [evaluator |-> [e EXCEPT !.objs[e.current_episode] = ep],
         stop |-> ep.steps >= e.max_step_count]

\* RogueEvaluator._add_episode
add_episode(e, episode) ==
    [e EXCEPT !.episodes = deque_append(@, episode, e.episodes_for_evaluation)]

\* RogueEvaluator.on_run_end(frame_history, won, is_rogue_dead); tiles: the
\* get_known_tiles_count() of the frame it picks
on_run_end(e, tiles, won) ==
    add_episode([e EXCEPT !.objs[e.current_episode] =
                     [@ EXCEPT !.final_tiles_count = tiles, !.won = won]],
                e.current_episode)

\* a state representation: None, or what a state generator computed from a
\* frame history of so many frames
NoState == [gen |-> "none", frames |-> 0]

\* no call yet
NoRet == [call |-> "none", raised |-> "none", reward |-> 0, state |-> NoState,
          won |-> FALSE, lost |-> FALSE, dead |-> FALSE, stop |-> FALSE, over |-> FALSE,
          step |-> 0]

\* no RogueBox yet
NoBox == [phase |-> "new", path_ok |-> TRUE, made |-> {}, forks |-> 0,
          move_rogue |-> FALSE, state_generator |-> "none", step_count |-> 0, state |-> NoState, nframes |-> 0]

\* added: the episodes added to the evaluator since it was made or reset;
\* returned: the state of the last tuple send_command returned since the
\* last start, the initial state if there is none
\* clean: no step since the last start found the rogue dead or the goal
\* achieved
\* end_calls: the calls of on_run_end since the last on_run_begin
NoRObs == [added |-> <<>>, returned |-> NoState, clean |-> TRUE, end_calls |-> 0]

RunNew ==
    /\ box = NoBox
    /\ evaluator = NoEvaluator
    /\ ret = NoRet
    /\ robs = NoRObs

\* a caller that uses a RogueEvaluator by itself, with the arguments the
\* methods declare
EvalConstruct ==
    /\ ~evaluator.made
    /\ \E n \in 1..MaxStepCount : \E efe \in 0..MaxWindow :
          evaluator' = RogueEvaluator(n, efe)
    /\ ret' = [NoRet EXCEPT !.call = "RogueEvaluator"]
    /\ UNCHANGED <<box, robs, sessionVars, parserVars, libVars>>

EvalReset ==
    /\ evaluator.made
    /\ evaluator' = evaluator_reset(evaluator)
    /\ ret' = [NoRet EXCEPT !.call = "evaluator.reset"]
    /\ robs' = [robs EXCEPT !.added = <<>>]
    /\ UNCHANGED <<box, sessionVars, parserVars, libVars>>

EvalRunBegin ==
    /\ evaluator.made
    /\ Len(evaluator.objs) < MaxRuns
    /\ evaluator' = on_run_begin(evaluator)
    /\ ret' = [NoRet EXCEPT !.call = "on_run_begin"]
    /\ UNCHANGED <<box, robs, sessionVars, parserVars, libVars>>

EvalStep ==
    /\ evaluator.made
    /\ IF evaluator.current_episode = 0
       THEN \* None.steps
            /\ ret' = [NoRet EXCEPT !.call = "on_step", !.raised = "AttributeError"]
            /\ UNCHANGED evaluator
       ELSE /\ StepsIn(evaluator.objs, Len(evaluator.objs)) < MaxSteps
            /\ \E reward \in Rewards :
                  /\ evaluator' = on_step(evaluator, reward).evaluator
                  /\ ret' = [NoRet EXCEPT !.call = "on_step", !.reward = reward,
                                !.stop = on_step(evaluator, reward).stop]
    /\ UNCHANGED <<box, robs, sessionVars, parserVars, libVars>>

EvalRunEnd ==
    /\ evaluator.made
    /\ IF evaluator.current_episode = 0
       THEN \* None.final_tiles_count
            /\ ret' = [NoRet EXCEPT !.call = "on_run_end", !.raised = "AttributeError"]
            /\ UNCHANGED <<evaluator, robs>>
       ELSE /\ Len(robs.added) < MaxRuns
            /\ \E tiles \in TileCounts : \E won \in BOOLEAN :
                  /\ evaluator' = on_run_end(evaluator, tiles, won)
                  /\ ret' = [NoRet EXCEPT !.call = "on_run_end", !.won = won]
            /\ robs' = [robs EXCEPT !.added = Append(@, evaluator.current_episode)]
    /\ UNCHANGED <<box, sessionVars, parserVars, libVars>>

\* ------------------------------------------------- RogueBox over its runs
\* the parameters of RogueEvaluator.on_run_end besides self, and the
\* arguments send_command passes to it
on_run_end_parameters == 3
on_run_end_arguments == 1

\* shutil.which taking any path for an executable
which_anything(path_ok) == path_ok \/ ~path_ok

\* shutil.which(self.rogue_path): truthy for an executable file
which(path_ok) == path_ok

\* the state generators: Dummy_StateGenerator, one of the caller's given to
\* the constructor, one of the caller's given to a call
StateGenerators == {"dummy", "init", "call"}

\* compute_state(frame_history) of generator gen
compute_state(gen, nframes) ==
    IF gen = "dummy" THEN NoState ELSE [gen |-> gen, frames |-> nframes]

\* lost without its "and not won"
lost_whatever_won(stopped, is_rogue_dead, won) == stopped \/ is_rogue_dead

\* send_command: lost = (stop or is_rogue_dead) and not won
lost_of(stopped, is_rogue_dead, won) == (stopped \/ is_rogue_dead) /\ ~won

\* send_command from "self.step_count += 1" on, the wait over: the reward
\* generator gives reward and goal_achieved, the new screen has game_over =
\* dead, the call was given state generator gen ("none": None); what the
\* call leaves and returns
SendTail(b, e, reward, dead, goal, gen) ==
    LET state_generator == IF gen # "none" THEN gen ELSE b.state_generator
        state == compute_state(state_generator, b.nframes + 1)
        won == goal
        step == on_step(e, reward)
        lost == lost_of(step.stop, dead, won)
        is_run_over == step.stop \/ dead \/ won
        \* self.evaluator.on_run_end(won)
        bound == on_run_end_arguments = on_run_end_parameters
    IN  [box |-> [b EXCEPT !.step_count = @ + 1, !.nframes = @ + 1, !.state = state],
         evaluator |-> IF is_run_over /\ bound
                       THEN on_run_end(step.evaluator, CHOOSE n \in TileCounts : TRUE, won)
                       ELSE step.evaluator,
         ended |-> is_run_over /\ bound,
         ret |-> [call |-> "send_command",
                  raised |-> IF is_run_over /\ ~bound THEN "TypeError" ELSE "none",
                  reward |-> reward, state |-> state, won |-> won, lost |-> lost,
                  dead |-> dead, stop |-> step.stop, over |-> is_run_over,
                  step |-> b.step_count + 1]]

\* how far a start gets: its wait for the first screen raises, the first
\* screen comes (and the wait of the first move raises, if there is one), or
\* the first move is elaborated too
Comes == {"raises", "screen", "moved"}

\* RogueBox._start: what it leaves and returns
Start(b, e, come, reward, dead, goal) ==
    LET b1 == [b EXCEPT !.step_count = 0, !.state = NoState, !.forks = @ + 1]
        b2 == [b1 EXCEPT !.nframes = 1]
        e1 == on_run_begin(e)
    IN  IF come = "raises"
        THEN [box |-> b1, evaluator |-> e1, ended |-> FALSE,
              ret |-> [NoRet EXCEPT !.call = "_start", !.raised = "OSError"]]
        ELSE IF ~b.move_rogue
        THEN [box |-> [b2 EXCEPT !.state = compute_state(b.state_generator, 1)],
              evaluator |-> e1, ended |-> FALSE,
              ret |-> [NoRet EXCEPT !.call = "_start"]]
        ELSE IF come = "screen"
        THEN [box |-> b2, evaluator |-> e1, ended |-> FALSE,
              ret |-> [NoRet EXCEPT !.call = "_start", !.raised = "OSError"]]
        ELSE SendTail(b2, e1, reward, dead, goal, "none")

\* the facts after a call that went through _start or through send_command's
\* wait, leaving r
Noted(r, started) ==
    [added |-> IF r.ended THEN Append(robs.added, r.evaluator.current_episode)
               ELSE robs.added,
     returned |-> IF r.ret.step # 0 /\ r.ret.raised = "none" THEN r.ret.state
                  ELSE IF started /\ r.ret.raised = "none" THEN r.box.state
                  ELSE IF started THEN NoState
                  ELSE robs.returned,
     clean |-> (started \/ robs.clean) /\ ~r.ret.dead /\ ~r.ret.won,
     end_calls |-> (IF started THEN 0 ELSE robs.end_calls)
                   + (IF r.ret.step # 0 /\ r.ret.over THEN 1 ELSE 0)]

\* RogueBox.__init__, with an evaluator of the caller's or the default one
RunConstruct ==
    /\ box.phase = "new" /\ ~evaluator.made
    /\ \E path_ok, start_game, move_rogue \in BOOLEAN :
       \E state_generator \in {"dummy", "init"} :
       \E n \in 1..MaxStepCount : \E efe \in 0..MaxWindow :
       \E come \in Comes : \E reward \in Rewards : \E dead, goal \in BOOLEAN :
          IF ~which(path_ok)
          THEN /\ box' = [box EXCEPT !.phase = "gone", !.path_ok = path_ok]
               /\ ret' = [NoRet EXCEPT !.call = "RogueBox", !.raised = "ValueError"]
               /\ UNCHANGED <<evaluator, robs>>
          ELSE LET b == [box EXCEPT !.path_ok = path_ok, !.move_rogue = move_rogue,
                            !.state_generator = state_generator,
                            !.made = {"parser", "evaluator", "reward_generator",
                                      "state_generator"}]
                   e == RogueEvaluator(n, efe)
                   r == Start(b, e, come, reward, dead, goal)
               IN  IF start_game
                   THEN /\ box' = [r.box EXCEPT !.phase =
                                      IF r.ret.raised = "none" THEN "ready" ELSE "gone"]
                        /\ evaluator' = r.evaluator
                        /\ ret' = [r.ret EXCEPT !.call = "RogueBox"]
                        /\ robs' = Noted(r, TRUE)
                   ELSE /\ box' = [b EXCEPT !.phase = "ready"]
                        /\ evaluator' = e
                        /\ ret' = [NoRet EXCEPT !.call = "RogueBox"]
                        /\ UNCHANGED robs
    /\ UNCHANGED <<sessionVars, parserVars, libVars>>

\* RogueBox.reset: stop(), which needs self.pid, then _start()
RunReset ==
    /\ box.phase = "ready"
    /\ IF box.forks = 0
       THEN /\ ret' = [NoRet EXCEPT !.call = "reset", !.raised = "AttributeError"]
            /\ UNCHANGED <<box, evaluator, robs>>
       ELSE /\ Len(evaluator.objs) < MaxRuns
            /\ \E come \in Comes : \E reward \in Rewards : \E dead, goal \in BOOLEAN :
               LET r == Start(box, evaluator, come, reward, dead, goal)
               IN  /\ box' = r.box
                   /\ evaluator' = r.evaluator
                   /\ ret' = [r.ret EXCEPT !.call = "reset"]
                   /\ robs' = Noted(r, TRUE)
    /\ UNCHANGED <<sessionVars, parserVars, libVars>>

\* RogueBox.send_command; its writes and its wait either raise or end with a
\* screen
RunSendCommand ==
    /\ box.phase = "ready"
    /\ IF box.forks = 0
       THEN \* self.screen
            /\ ret' = [NoRet EXCEPT !.call = "send_command", !.raised = "AttributeError"]
            /\ UNCHANGED <<box, evaluator, robs>>
       ELSE \/ /\ ret' = [NoRet EXCEPT !.call = "send_command", !.raised = "OSError"]
               /\ UNCHANGED <<box, evaluator, robs>>
            \/ /\ StepsIn(evaluator.objs, Len(evaluator.objs)) < MaxSteps
               /\ \E reward \in Rewards : \E dead, goal \in BOOLEAN :
                  \E gen \in {"none", "call"} :
                  LET r == SendTail(box, evaluator, reward, dead, goal, gen)
                  IN  /\ box' = r.box
                      /\ evaluator' = r.evaluator
                      /\ ret' = r.ret
                      /\ robs' = Noted(r, FALSE)
    /\ UNCHANGED <<sessionVars, parserVars, libVars>>

\* RogueBox.get_current_state
get_current_state ==
    /\ box.phase = "ready"
    /\ ret' = IF box.forks = 0
              THEN [NoRet EXCEPT !.call = "get_current_state", !.raised = "AttributeError"]
              ELSE [NoRet EXCEPT !.call = "get_current_state", !.state = box.state]
    /\ UNCHANGED <<box, evaluator, robs, sessionVars, parserVars, libVars>>

\* ----------------------------------------------- Terminal byte by byte
\* bytes fed to one Terminal
MaxBytes == 4

\* open_terminal(command, columns=80, lines=24)
columns == 80
lines == 24

\* the bytes of the child's output: the escape character, the characters of
\* the control sequences ESC [ H (cursor home) and ESC [ J (erase from the
\* cursor on) and a glyph
Bytes == {"ESC", "[", "H", "J", "x"}

\* all byte strings of at most n bytes
RECURSIVE Chunks(_)
Chunks(n) ==
    IF n = 0 THEN {<<>>}
    ELSE LET shorter == Chunks(n - 1)
         IN  shorter \cup {Append(s, b) : s \in {c \in shorter : Len(c) = n - 1}, b \in Bytes}

\* Terminal.__init__: a screen of columns x lines blanks with the cursor at
\* the top left, and a stream attached to it that has read nothing; cells:
\* the cells drawn, as <<position, character>>, positions counted row by row
Terminal(cols, rows) ==
    [columns |-> cols, lines |-> rows, cells |-> {}, cursor |-> 1, stream |-> "ground"]

\* the stream takes one byte: a control sequence is collected over as many
\* bytes as it has and acts on the screen at its last byte
stream_feed1(t, b) ==
    CASE t.stream = "ground" /\ b = "ESC" -> [t EXCEPT !.stream = "escape"]
      [] t.stream = "ground" /\ b # "ESC" ->
            [t EXCEPT !.cells = {c \in @ : c[1] # t.cursor} \cup {<<t.cursor, b>>},
                      !.cursor = @ + 1]
      [] t.stream = "escape" /\ b = "[" -> [t EXCEPT !.stream = "csi"]
      [] t.stream = "escape" /\ b # "[" -> [t EXCEPT !.stream = "ground"]
      [] t.stream = "csi" /\ b = "H" -> [t EXCEPT !.stream = "ground", !.cursor = 1]
      [] t.stream = "csi" /\ b = "J" ->
            [t EXCEPT !.stream = "ground", !.cells = {c \in @ : c[1] < t.cursor}]
      [] OTHER -> [t EXCEPT !.stream = "ground"]

RECURSIVE stream_feed(_, _)
stream_feed(t, data) ==
    IF data = <<>> THEN t ELSE stream_feed(stream_feed1(t, Head(data)), Tail(data))

\* a feed that reads every chunk with a stream of its own
Terminal_feed_new_stream(t, data) == stream_feed([t EXCEPT !.stream = "ground"], data)

\* Terminal.feed(data): self.stream.feed(data), the stream made by __init__
Terminal_feed(t, data) == stream_feed(t, data)

\* Terminal.read(): self.screen.display, the rows of the screen as strings
Terminal_read(t) ==
    [r \in 1..t.lines |->
        [c \in 1..t.columns |->
            LET at == {cell \in t.cells : cell[1] = (r - 1) * t.columns + c}
            IN  IF at = {} THEN " " ELSE (CHOOSE cell \in at : TRUE)[2]]]

\* get_empty_screen: 24 rows of 80 blanks
EmptyRows == [r \in 1..24 |-> [c \in 1..80 |-> " "]]

\* fed: all the bytes fed so far; several: they came in two reads or more;
\* split: a read ended inside a control sequence
NoTerminal == [made |-> FALSE, t |-> Terminal(0, 0), screen |-> <<>>,
               fed |-> <<>>, several |-> FALSE, split |-> FALSE]

\* open_terminal and "self.screen = self.get_empty_screen()" of _start
TermOpen ==
    /\ ~terminal.made
    /\ terminal' = [NoTerminal EXCEPT !.made = TRUE, !.t = Terminal(columns, lines),
                                      !.screen = EmptyRows]
    /\ UNCHANGED <<sessionVars, parserVars, runVars, options, history, levels>>

\* RogueBox._update_screen: whatever the pty holds is read, fed and, if it is
\* not empty, the screen is read back
UpdateScreen ==
    /\ terminal.made
    /\ \E update \in Chunks(MaxBytes - Len(terminal.fed)) :
          IF update # <<>>
          THEN LET t == Terminal_feed(terminal.t, update)
               IN  terminal' = [terminal EXCEPT
                                   !.t = t,
                                   !.screen = Terminal_read(t),
                                   !.fed = @ \o update,
                                   !.several = (terminal.fed # <<>>),
                                   !.split = @ \/ t.stream # "ground"]
          ELSE UNCHANGED terminal
    /\ UNCHANGED <<sessionVars, parserVars, runVars, options, history, levels>>

\* ------------------------------------------------- LevelsRogueEvaluator
\* the deepest dungeon level a frame shows
MaxLevel == 3
\* on_step calls per run
MaxLevelSteps == 3

\* LevelsEpisode.__init__
LevelsEpisode ==
    [won |-> FALSE, steps |-> 0, final_tiles_count |-> 0, total_reward |-> 0,
     levels_steps |-> <<>>, ascending_levels_steps |-> <<>>]

\* the last frame of a frame history, as on_step reads it: the dungeon level
\* of its status bar (0: the frame has no status bar), and whether row 9
\* starts with 'Congratulations'
LevelFrames == [level : 0..MaxLevel, victory : BOOLEAN]

NoLevelFrame == [level |-> 0, victory |-> FALSE]

\* the local "level" of on_step: None, the level of the status bar, or 0 for
\* a victory frame without one
frame_level(f) ==
    IF f.level # 0 THEN [none |-> FALSE, n |-> f.level]
    ELSE IF f.victory THEN [none |-> FALSE, n |-> 0]
    ELSE [none |-> TRUE, n |-> 0]

\* one entry however many levels were passed
one_entry(x, n) == IF n > 0 THEN <<x>> ELSE <<>>

\* [x] * n
repeat(x, n) == [i \in 1..n |-> x]

\* a LevelsRogueEvaluator before its first run; frame, raised, stop: the
\* argument and the outcome of the last on_step; descends: no step of the
\* run showed a level above the one before
NoLevels == [made |-> TRUE, max_step_count |-> MaxLevelSteps, begun |-> FALSE,
             last_level |-> 0, just_changed_level |-> FALSE,
             current_episode |-> LevelsEpisode, frame |-> NoLevelFrame,
             raised |-> "none", stop |-> FALSE, descends |-> TRUE]

\* LevelsRogueEvaluator.on_run_begin
LevelsRunBegin ==
    /\ levels # <<>>
    /\ levels' = [levels EXCEPT !.begun = TRUE, !.last_level = 1,
                                !.just_changed_level = FALSE,
                                !.current_episode = LevelsEpisode,
                                !.frame = NoLevelFrame, !.raised = "none",
                                !.stop = FALSE, !.descends = TRUE]
    /\ UNCHANGED <<sessionVars, parserVars, runVars, terminal, options, history>>

\* LevelsRogueEvaluator.on_step with a frame history of two frames or more,
\* as RogueBox passes it; tiles: get_known_tiles_count() of frame_history[-2]
levels_on_step(e, frame, tiles, reward) ==
    LET ep == [e.current_episode EXCEPT !.steps = @ + 1, !.total_reward = @ + reward]
        level == frame_level(frame)
        diff == level.n - e.last_level
        descending == diff > 0
    IN  IF ~level.none /\ level.n # e.last_level
        THEN [e EXCEPT
                !.just_changed_level = TRUE,
                !.current_episode =
                    IF descending
                    THEN [ep EXCEPT !.final_tiles_count = @ + tiles,
                                    !.levels_steps = @ \o repeat(ep.steps, diff)]
                    ELSE [ep EXCEPT !.final_tiles_count = @ + tiles,
                                    !.ascending_levels_steps =
                                        @ \o repeat(ep.steps, diff * (-1))],
                !.last_level = level.n]
        ELSE [e EXCEPT !.just_changed_level = FALSE, !.current_episode = ep]

LevelsStep ==
    /\ levels # <<>>
    /\ IF ~levels.begun
       THEN \* None.steps
            levels' = [levels EXCEPT !.raised = "AttributeError"]
       ELSE /\ levels.current_episode.steps < MaxLevelSteps
            /\ \E frame \in LevelFrames : \E tiles \in TileCounts : \E reward \in Rewards :
                  levels' = [levels_on_step(levels, frame, tiles, reward) EXCEPT
                                !.frame = frame, !.raised = "none",
                                !.stop = (levels.current_episode.steps + 1
                                             >= levels.max_step_count),
                                !.descends = @ /\ (frame_level(frame).none
                                                   \/ frame_level(frame).n >= levels.last_level)]
    /\ UNCHANGED <<sessionVars, parserVars, runVars, terminal, options, history>>

\* LevelsRogueEvaluator(max_step_count)
LevelsConstruct ==
    /\ levels = <<>>
    /\ levels' = NoLevels
    /\ UNCHANGED <<sessionVars, parserVars, runVars, terminal, options, history>>

\* ---------------------------------------------------------- RogueOptions
\* generate_args calls per RogueOptions
MaxArgs == 2

\* the seeds a caller gives, and the seeds random.Random takes from the
\* operating system when it is seeded with None
Seeds == {1, 2}
Entropy == {8, 9}

\* a seed value: None, a seed the caller gave, or the draw-th getrandbits(32)
\* of a random.Random seeded with seed
NoSeed == [kind |-> "None", seed |-> 0, draw |-> 0]
Given(s) == [kind |-> "given", seed |-> s, draw |-> 0]
GivenSeeds == {NoSeed} \cup {Given(s) : s \in Seeds}

\* self._rng.seed(seed): the generator starts the sequence of that seed, of
\* a seed from the operating system for None
rng_seed(seed, entropy) ==
    [seed |-> IF seed = NoSeed THEN entropy ELSE seed.seed, draws |-> 0]

\* self._rng.getrandbits(32): the value and the generator after it
getrandbits(rng) ==
    [val |-> [kind |-> "drawn", seed |-> rng.seed, draw |-> rng.draws + 1],
     rng |-> [rng EXCEPT !.draws = @ + 1]]

\* RogueOptions.set_seed
set_seed(o, seed, entropy) ==
    LET rng == rng_seed(seed, entropy)
    IN  IF seed # NoSeed
        THEN [o EXCEPT !.rng = rng, !.current_seed = seed]
        ELSE [o EXCEPT !.rng = getrandbits(rng).rng, !.current_seed = getrandbits(rng).val]

\* RogueOptions.__init__: "if not fixed_seed: self.set_seed(seed)"
set_seed_at_init(fixed_seed) == ~fixed_seed

\* RogueOptions.__init__; current_seed: self._seed; args: the seed argument
\* of every argument list generated so far ('' as NoSeed); set: set_seed was
\* called by the caller
RogueOptions(seed, fixed_seed, entropy) ==
    LET o == [seed |-> seed, fixed_seed |-> fixed_seed,
              rng |-> [seed |-> entropy, draws |-> 0], current_seed |-> NoSeed,
              args |-> <<>>, set |-> FALSE]
    IN  IF set_seed_at_init(fixed_seed) THEN set_seed(o, seed, entropy) ELSE o

\* RogueOptions.generate_args, the seed argument of the list
generate_args(o) ==
    IF ~o.fixed_seed
    THEN [o EXCEPT !.args = Append(@, o.current_seed),
                   !.current_seed = getrandbits(o.rng).val,
                   !.rng = getrandbits(o.rng).rng]
    ELSE [o EXCEPT !.args = Append(@, o.current_seed)]

OptionObjects == {1, 2}

OptConstruct ==
    /\ Len(options) < Cardinality(OptionObjects)
    /\ \E seed \in GivenSeeds : \E fixed_seed \in BOOLEAN : \E entropy \in Entropy :
          options' = Append(options, RogueOptions(seed, fixed_seed, entropy))
    /\ UNCHANGED <<sessionVars, parserVars, runVars, terminal, history, levels>>

OptSetSeed ==
    /\ \E i \in DOMAIN options : \E seed \in GivenSeeds : \E entropy \in Entropy :
          /\ ~options[i].set /\ options[i].args = <<>>
          /\ options' = [options EXCEPT ![i] = [set_seed(@, seed, entropy) EXCEPT !.set = TRUE]]
    /\ UNCHANGED <<sessionVars, parserVars, runVars, terminal, history, levels>>

OptGenerateArgs ==
    /\ \E i \in DOMAIN options :
          /\ Len(options[i].args) < MaxArgs
          /\ options' = [options EXCEPT ![i] = generate_args(@)]
    /\ UNCHANGED <<sessionVars, parserVars, runVars, terminal, history, levels>>

\* ------------------------------------------------------ FIFORandomPickHM
\* update_history calls in all
MaxUpdates == 3
\* the largest histsize
MaxHist == 2
\* history managers made one after the other, with the same file
MaxManagers == 2

\* no file, os.path.isfile(filename) is false
NoFile == [exists |-> FALSE, history |-> <<>>]

\* collections.deque.appendleft
appendleft(q, x) == <<x>> \o q

\* collections.deque.pop: the rightmost item is removed
deque_pop(q) == SubSeq(q, 1, Len(q) - 1)

\* FIFORandomPickHM.update_history: the history after it
update_history(q, histsize, transition) ==
    LET q1 == appendleft(q, transition)
    IN  IF Len(q1) > histsize THEN deque_pop(q1) ELSE q1

\* FIFORandomPickHM(histsize): the manager of a program run; the file of the
\* runs before is still there. n: the transitions made so far, file: what
\* save_history_on_file wrote, managers: the managers made so far
HistConstruct ==
    /\ IF history = <<>> THEN TRUE ELSE history.managers < MaxManagers
    /\ \E histsize \in 0..MaxHist :
          history' = [histsize |-> histsize, q |-> <<>>,
                      n |-> IF history = <<>> THEN 0 ELSE history.n,
                      file |-> IF history = <<>> THEN NoFile ELSE history.file,
                      managers |-> IF history = <<>> THEN 1 ELSE history.managers + 1]
    /\ UNCHANGED <<sessionVars, parserVars, runVars, terminal, options, levels>>

\* update_history(old_state, new_state, action_index, reward, terminal), the
\* transition being the n-th one made
HistUpdate ==
    /\ history # <<>>
    /\ history.n < MaxUpdates
    /\ history' = [history EXCEPT
                      !.q = update_history(@, history.histsize, history.n + 1),
                      !.n = @ + 1]
    /\ UNCHANGED <<sessionVars, parserVars, runVars, terminal, options, levels>>

\* HistoryManager.save_history_on_file
HistSave ==
    /\ history # <<>>
    /\ history' = [history EXCEPT !.file = [exists |-> TRUE, history |-> history.q]]
    /\ UNCHANGED <<sessionVars, parserVars, runVars, terminal, options, levels>>

\* HistoryManager.load_history_from_file
HistLoad ==
    /\ history # <<>>
    /\ history' = IF history.file.exists
                  THEN [history EXCEPT !.q = history.file.history]
                  ELSE history
    /\ UNCHANGED <<sessionVars, parserVars, runVars, terminal, options, levels>>

\* ----------------------------------------------------------------- system
LibNew ==
    /\ terminal = NoTerminal
    /\ options = <<>>
    /\ history = <<>>
    /\ levels = <<>>

Init ==
    /\ pc = "new"
    /\ refresh_after_commands \in BOOLEAN
    /\ rogue_has_cmd \in BOOLEAN
    /\ has_cmd_count = FALSE
    /\ screen = get_empty_screen
    /\ frame_history = <<>>
    /\ pid = 0
    /\ old_cmd_count = 0 /\ expected_cmd_count = 0 /\ new_cmd_count = 0
    /\ result = "none"
    /\ child = [p \in Pids |-> "unborn"]
    /\ pipe_open = [p \in Pids |-> FALSE]
    /\ inq = <<>>
    /\ game = [mode |-> "silent", count |-> 0, prompt |-> "none", dead |-> FALSE,
               prompts |-> 0, written |-> 0, pend |-> <<>>]
    /\ polls = 0
    /\ ncmds = 0
    /\ retries = 0
    /\ obs = NoObs
    /\ ParserNew
    /\ RunNew
    /\ LibNew

BoxNext ==
    \/ Construct
    \/ reset
    \/ stop
    \/ StartPoll
    \/ send_command
    \/ BusyPoll
    \/ FixedRead
    \/ DismissWrite
    \/ DismissRead
    \/ PlayOn

GameNext ==
    \/ GameFlush
    \/ GameKey
    \/ ChildExit

Next == BoxNext \/ GameNext

Spec == Init /\ [][Next]_vars

\* a RogueParser used on its own
ParserInit == Init /\ refresh_after_commands /\ rogue_has_cmd

ParserNext ==
    \/ ParserReset
    \/ ParserParse

ParserSpec == ParserInit /\ [][ParserNext]_vars

\* a RogueParser and the caller reading the frames
FrameNext ==
    \/ ParserReset
    \/ ParserParse
    \/ GetEnvironmentTileAt
    \/ GetPlayerPos
    \/ GetKnownTilesCount

FrameSpec == ParserInit /\ [][FrameNext]_vars

\* a RogueEvaluator used on its own
EvalNext ==
    \/ EvalConstruct
    \/ EvalReset
    \/ EvalRunBegin
    \/ EvalStep
    \/ EvalRunEnd

EvalSpec == ParserInit /\ [][EvalNext]_vars

\* a RogueBox seen call by call
RunNext ==
    \/ RunConstruct
    \/ RunReset
    \/ RunSendCommand
    \/ get_current_state

RunSpec == ParserInit /\ [][RunNext]_vars

\* a Terminal fed chunk by chunk
TermNext ==
    \/ TermOpen
    \/ UpdateScreen

TermSpec == ParserInit /\ [][TermNext]_vars

\* a LevelsRogueEvaluator step by step
LevelsNext ==
    \/ LevelsConstruct
    \/ LevelsRunBegin
    \/ LevelsStep

LevelsSpec == ParserInit /\ [][LevelsNext]_vars

\* RogueOptions objects and their argument lists
OptNext ==
    \/ OptConstruct
    \/ OptSetSeed
    \/ OptGenerateArgs

OptSpec == ParserInit /\ [][OptNext]_vars

\* a FIFORandomPickHM and its file
HistNext ==
    \/ HistConstruct
    \/ HistUpdate
    \/ HistSave
    \/ HistLoad

HistSpec == ParserInit /\ [][HistNext]_vars

\* the session code runs on whenever it can, and the operating system lets a
\* live child run and write; nothing makes a child exit
FairSpec == Spec /\ WF_vars(BoxNext) /\ WF_vars(GameKey) /\ WF_vars(GameFlush)

\* ----------------------------------------------------------------- claims

\* C1: under the counted protocol a wait whose counter does not reach the
\* expected value ends with the wait budget (RogueLoopError): the loop of
\* _cmd_busy_wait is never found turning with the budget used up.
C1_WaitWithinBudget == (pc = "bw_loop") => polls <= MaxBusyWait

\* C2: under the counted protocol, when every screen of the wait had 'Hp:' in
\* its last row and no prompt in its first, send_command returns only on a
\* screen whose counter is at least that of the last frame plus 2 (with
\* refresh_after_commands) or plus 1 (without).
C2_ReturnsAtCount ==
    [][(has_cmd_count /\ ncmds' = ncmds + 1 /\ obs'.clean) =>
          LET c == get_cmd_count(screen')
              last == frame_history[Len(frame_history)].statusbar.command_count
          IN  /\ ~c.raised
              /\ c.val >= last + (IF refresh_after_commands THEN 2 ELSE 1)]_vars

\* C2, reached: a counted wait with refresh that began at Played returned
\* at Played + 2
C2_ReturnedAtCount ==
    /\ pc = "idle" /\ has_cmd_count /\ refresh_after_commands
    /\ obs.exit = "count" /\ obs.clean
    /\ get_cmd_count(screen).val = Played + 2

\* C3: under both protocols the screen send_command parses and appends to
\* frame_history is one the game has finished drawing for that command: no
\* key of the command is still unread by the game and none of its output is
\* still unread by the session.
C3_NoTornFrame ==
    [][(ncmds' = ncmds + 1) =>
          /\ \A i \in 1..Len(inq) : inq[i] \notin {"action", "refresh"}
          /\ game'.pend = <<>>]_vars

\* C4: the keys of a command are written only after the wait of the command
\* before it has ended on its completion condition.
C4_WriteAfterCompletion ==
    [][(pc = "idle" /\ Len(inq') > Len(inq)) => ~obs.unfinished]_vars

\* C5: during one counted wait new_cmd_count never decreases, and a screen
\* showing a lower counter than the accepted one, or no readable counter,
\* leaves it unchanged.
C5_CountNeverDecreases ==
    [][(/\ has_cmd_count
        /\ pc \in {"bw_loop", "dismiss_w", "dismiss_r"}
        /\ pc' \in {"bw_loop", "dismiss_w", "dismiss_r"}) =>
          /\ new_cmd_count' >= new_cmd_count
          /\ LET c == get_cmd_count(screen')
             IN  (c.raised \/ c.val < new_cmd_count) => new_cmd_count' = new_cmd_count]_vars

\* C5, reached: the wait goes on after a screen that showed a counter below
\* the accepted one
C5_LowerCounterRead ==
    /\ pc = "bw_loop" /\ obs.low_read
    /\ ~get_cmd_count(screen).raised
    /\ get_cmd_count(screen).val < new_cmd_count

\* C6 as stated: when the wait goes on or ends after a dismissal, the
\* expected counter is the old one plus the increment minus the number of
\* prompts dismissed, with and without refresh_after_commands.
C6_LoweredPerDismissal ==
    [][(/\ has_cmd_count /\ pc = "dismiss_r"
        /\ (pc' = "bw_loop" \/ ncmds' = ncmds + 1)) =>
          expected_cmd_count = old_cmd_count + (IF refresh_after_commands THEN 2 ELSE 1)
                               - obs.dismissed]_vars

\* C6 as the code has it: the expected counter is lowered by one in each turn
\* of the wait loop that finds a prompt after its read, however many prompts
\* that turn dismisses, and only with refresh_after_commands.
C6_LoweredPerPromptTurn ==
    (has_cmd_count /\ pc \in {"bw_loop", "dismiss_w", "dismiss_r"}) =>
        expected_cmd_count = old_cmd_count + (IF refresh_after_commands THEN 2 ELSE 1)
                             - (IF refresh_after_commands THEN obs.prompt_turns ELSE 0)

\* C6, reached: one turn of a wait with refresh has had two prompts
\* dismissed and lowered the expected counter once
C6_TwoDismissedInOneTurn ==
    /\ has_cmd_count /\ refresh_after_commands /\ pc = "dismiss_r"
    /\ obs.dismissed = 2 /\ obs.prompt_turns = 1
    /\ expected_cmd_count = old_cmd_count + 1

\* C7: a counted wait is cut short, before the counter reached the expected
\* value, only when the game is over: the rogue has died.
C7_EarlyEndOnlyOnDeath ==
    [][(ncmds' = ncmds + 1 /\ obs'.exit = "gameover") => game.dead]_vars

\* C8: under the fixed-delay protocol send_command, its game running,
\* returns.
C8_FixedDelayReturns ==
    (pc = "fd_read" /\ child[pid] = "alive")
        ~> (pc = "idle" \/ pid = 0 \/ child[pid] # "alive")

\* C9: _start does not poll forever: it returns or raises.
C9_StartReturns == (pc = "start_wait") ~> (pc # "start_wait")

\* C10: at most one child started by the RogueBox is alive.
C10_OneLiveChild == Cardinality({p \in Pids : child[p] = "alive"}) <= 1

\* C10, reached: reset() has started the second child, the first one killed
\* and waited for
C10_SecondChild ==
    /\ pid = 2 /\ child[2] = "alive" /\ child[1] = "reaped" /\ ~pipe_open[1]

\* C11: stop() on a session that was started, whatever has become of its
\* child (running, exited, reaped by an earlier stop()), returns without
\* raising, signals the child only if it is alive, touches no other child
\* and leaves no child alive.
C11_StopSafe ==
    [][(stop /\ pid # 0) =>
          /\ result' = "ok"
          /\ StopKills => child[pid] = "alive"
          /\ \A p \in Pids : child'[p] # "alive"
          /\ \A p \in Pids \ {pid} : child'[p] = child[p]]_vars

\* stop() was called after the child had exited by itself: the child is
\* reaped, its pipe was left as it was
C11_StoppedAfterExit ==
    pc = "idle" /\ result = "ok" /\ pid # 0 /\ child[pid] = "reaped" /\ pipe_open[pid]

\* C12: reset() on a RogueBox built with start_game=False starts the game
\* without error.
C12_ResetStartsUnstarted ==
    [][(reset /\ pid = 0) => (pc' = "start_wait" /\ result' # "AttributeError")]_vars

\* C13: after stop() the pipe of the session is closed, also when the child
\* had exited before.
C13_StopClosesPipe == [][(stop /\ pid # 0) => ~pipe_open'[pid]]_vars

\* C14: send_command on a session whose child is gone (stopped, or dead by
\* itself) does not raise from its writes and reads.
C14_NoRaiseWhenGone ==
    [][(send_command /\ pid # 0 /\ child[pid] # "alive")
          => ~(pc' = "idle" /\ result' \in {"ValueError", "OSError"})]_vars
\* the frame the last parse_screen call returned
Last == parser.last_info

\* map m2 has every terrain glyph of map m1, in the same cell
Contains(m2, m1) == \A c \in Cells : m1[c] # " " => m2[c] = m1[c]

\* the map and the terrain index of a screen parsed on its own
TerrainOf(s) ==
    scan_environment(empty_environment_map, build_type_dict("environment"), s.rows, 1)

\* C15: the frame of a screen without status bar has has_statusbar() false
\* and carries the dungeon level of the latest frame with a status bar since
\* the last reset, 1 if there is none.
C15_CarriedLevel ==
    (~Last.none /\ build_statusbar(Last.screen).is_empty) =>
        /\ Last.statusbar.is_empty
        /\ Last.statusbar.dungeon_level = IF pobs.prev_level = 0 THEN 1 ELSE pobs.prev_level

\* C16: without reset(), a frame with a status bar showing the level of the
\* latest frame with a status bar before it has all the terrain of that frame
\* in its map, whatever screens without status bar were parsed in between.
C16_MapKeptWithinLevel ==
    [][(nparses' = nparses + 1 /\ presult' = "ok" /\ ~Last'.statusbar.is_empty
        /\ pobs.prev_level # 0 /\ Last'.statusbar.dungeon_level = pobs.prev_level)
          => Contains(Last'.map, pobs.prev_map)]_vars

\* C17: from one frame with a status bar to the next, on the same dungeon
\* level, no terrain glyph of the map changes or vanishes; parsing the same
\* screen again leaves the map as it is.
C17_TerrainNeverOverwritten ==
    [][(nparses' = nparses + 1 /\ presult' = "ok"
        /\ ~Last.none /\ ~Last.statusbar.is_empty /\ ~Last'.statusbar.is_empty
        /\ Last'.statusbar.dungeon_level = Last.statusbar.dungeon_level)
          => /\ Contains(Last'.map, Last.map)
             /\ Contains(parser'.environment_map, parser.environment_map)
             /\ Last'.screen = Last.screen =>
                    (Last'.map = Last.map /\ Last'.pixel = Last.pixel)]_vars

\* two frames of the same level in a row, the second from a screen that shows
\* another glyph where the map already had terrain
C17_SeenOtherGlyph ==
    /\ pobs.streak
    /\ \E c \in Cells : /\ Last.map[c] \in tiles_types_dict.environment
                         /\ Last.screen.rows[c] # Last.map[c]

\* C18: a frame whose dungeon level differs from the level of the frame
\* before it has in its map and terrain index the terrain of its own screen
\* and nothing else.
C18_NothingCarriedOver ==
    [][(nparses' = nparses + 1 /\ presult' = "ok" /\ ~Last.none
        /\ ~Last'.statusbar.is_empty
        /\ Last'.statusbar.dungeon_level # Last.statusbar.dungeon_level)
          => /\ Last'.map = TerrainOf(Last'.screen).map
             /\ Last'.pixel.environment = TerrainOf(Last'.screen).dict]_vars

\* C19: what the caller reads in a frame it has kept (map, terrain index,
\* items, monsters, agents) is changed by no later parse_screen or reset call.
C19_FramesIndependent ==
    [][~pobs.held.none => FrameValue(pobs'.held) = FrameValue(pobs.held)]_vars

\* the caller keeps a frame and the parser has since found more terrain on
\* the same level
C19_HeldAndWrittenOn ==
    /\ ~pobs.held.none /\ ~pobs.held.statusbar.is_empty
    /\ pobs.prev_level = pobs.held.statusbar.dungeon_level
    /\ pobs.held.map # parser.environment_map
    /\ Contains(parser.environment_map, pobs.held.map)
    /\ pobs.held.map # empty_environment_map

\* C20: reset() leaves the parser in one fixed state (empty map, empty
\* terrain index, empty position lists, no last frame) whatever state it was
\* in, so a second reset() changes nothing.
C20_ResetIdempotent ==
    [][ParserReset =>
          /\ parser'.environment_map = empty_environment_map
          /\ parser'.environment_dict = build_type_dict("environment")
          /\ parser'.pixel = build_pixel_dict
          /\ parser'.last_info = NoFrame
          /\ pobs.resets > 0 => parser' = parser]_vars

\* reset() was called twice in a row after screens had been parsed
C20_ResetTwice == pobs.resets = 2 /\ nparses > 0
\* C21: parse_screen on a newly constructed parser, before any reset(),
\* succeeds (and returns the frame it would return after reset()).
C21_NewParserParses ==
    [][(nparses' = nparses + 1 /\ presult = "none") => presult' = "ok"]_vars
\* the cells where the screen of frame f shows the rogue
RogueCells(f) == {c \in Cells : f.screen.rows[c] = "@"}

\* C22: get_player_pos returns its default argument for a frame with a status
\* bar whose screen shows no '@' and for a frame without status bar, and
\* otherwise a position where the screen shows '@'.
C22_PlayerPosOrDefault ==
    (query.op = "get_player_pos") =>
        IF Last.statusbar.is_empty \/ RogueCells(Last) = {}
        THEN query.ret_pos = query.pos
        ELSE \E c \in RogueCells(Last) : query.ret_pos = CellPos(c)

\* get_player_pos was called with a coordinate as default on a frame with a
\* status bar and no rogue, and on a frame without status bar
C22_DefaultReturned ==
    /\ query.op = "get_player_pos" /\ query.pos = At(1, 1) /\ query.ret_pos = At(1, 1)
    /\ ~Last.statusbar.is_empty /\ Last.map # empty_environment_map

\* C23: get_environment_tile_at returns ' ' for None and for every coordinate
\* outside the map, negative rows and columns included, and the map cell for
\* a coordinate inside.
C23_BlankOutsideMap ==
    (query.op = "get_environment_tile_at") =>
        query.ret_tile =
            IF ~query.pos.none /\ query.pos.x = 0
               /\ 0 <= query.pos.y /\ query.pos.y < Len(Last.map)
            THEN Last.map[query.pos.y + 1]
            ELSE " "

\* the positions known in frame f, whatever the category
KnownPositions(f) ==
    UNION {get_list_of_positions_by_type(f, k) : k \in f.pixel.keys}

\* C25: get_known_tiles_count is the number of distinct positions known in
\* the frame, a position known in two categories counting once.
C25_CountsDistinctPositions ==
    (query.op = "get_known_tiles_count") =>
        query.ret_count = Cardinality(KnownPositions(Last))
\* the four categories
TileTypes == {"environment", "items", "monsters", "agents"}

\* the cells where the screen of frame f shows glyph g, in scan order
ShownAt(f, g) == SelectSeq(CellSeq, LAMBDA c : f.screen.rows[c] = g)

LastItems(q, n) ==
    IF n = 0 \/ Len(q) <= n THEN q ELSE SubSeq(q, Len(q) - n + 1, Len(q))

\* C28: the evaluator's episodes are the most recently added ones, in the
\* order they were added, at most episodes_for_evaluation of them, and all of
\* them when episodes_for_evaluation is 0 or None.
C28_RollingWindow ==
    evaluator.made =>
        /\ evaluator.episodes = LastItems(robs.added, evaluator.episodes_for_evaluation)
        /\ evaluator.episodes_for_evaluation # 0 =>
               Len(evaluator.episodes) <= evaluator.episodes_for_evaluation

\* a third episode was added to an evaluator that keeps two: the first is gone
C28_OldestEvicted ==
    /\ evaluator.episodes_for_evaluation = 2 /\ Len(robs.added) = 3
    /\ Len(evaluator.episodes) = 2 /\ robs.added[1] # robs.added[3]
\* a step of send_command got past its wait (by itself or inside _start)
Stepped == ret'.step # 0 /\ box' # box

\* C26: a step that ends the run (rogue dead, step limit reached or goal
\* achieved) returns (reward, state, won, lost) without raising, and the
\* evaluator records the episode.
C26_RunEndReturns ==
    [][(Stepped /\ ret'.over) =>
          /\ ret'.raised = "none"
          /\ Len(robs'.added) = Len(robs.added) + 1]_vars

\* C27: in a run without death and without goal, step k <= max_step_count
\* returns lost = (k = max_step_count).
C27_LostAtStepLimit ==
    [][(Stepped /\ ~ret'.dead /\ ~ret'.won /\ (robs.clean \/ ret'.step = 1)
        /\ ret'.step <= evaluator'.max_step_count)
          => /\ ret'.raised = "none"
             /\ ret'.lost = (ret'.step = evaluator'.max_step_count)]_vars

\* C29: get_current_state returns the state of the tuple the most recent
\* send_command since the last start returned, or the initial state.
C29_CurrentStateIsReturned ==
    (ret.call = "get_current_state" /\ ret.raised = "none") => ret.state = robs.returned

\* C30: a RogueBox whose game path is not an executable raises from its
\* constructor before it makes its parser, evaluator and generators and
\* before it forks.
C30_LaunchFailureFirst ==
    [][(RunConstruct /\ ~box'.path_ok) =>
          /\ ret'.raised = "ValueError" /\ box'.phase = "gone"
          /\ box'.made = {} /\ box'.forks = 0
          /\ ~evaluator'.made /\ evaluator'.objs = <<>>]_vars

\* the constructor has raised for a missing executable
C30_ConstructorRaised ==
    box.phase = "gone" /\ ~box.path_ok /\ ret.raised = "ValueError"

\* C31: under the counted protocol a send_command that finds the last frame
\* of frame_history without a status bar, or with a status bar without a
\* command counter, does not raise while it computes the expected counter.
C31_UnparsableFrameNotFatal ==
    [][(send_command /\ pid # 0 /\ has_cmd_count /\ frame_history # <<>>
        /\ LET last == frame_history[Len(frame_history)].statusbar
           IN  last.is_empty \/ last.cc_kind # "int")
          => result' \notin {"KeyError", "TypeError"}]_vars

C33_FlagFromCompleteScreen ==
    [][/\ has_cmd_count => has_cmd_count'
       /\ (pc = "start_wait" /\ pc' = "idle" /\ result' = "ok")
             => has_cmd_count' = (has_cmd_count \/ rogue_has_cmd)]_vars

\* q is p with n entries equal to x after it
Extended(p, q, n, x) ==
    /\ Len(q) = Len(p) + n
    /\ \A i \in 1..Len(q) : q[i] = IF i <= Len(p) THEN p[i] ELSE x

\* C34: a step whose frame shows a level d away from last_level appends
\* exactly d entries, all equal to the episode's step count, to levels_steps
\* (deeper) or ascending_levels_steps (higher) and leaves the other list
\* alone; a step whose frame has no status bar and is no victory frame
\* changes neither list nor last_level; while a run only descends,
\* len(levels_steps) = last_level - 1.
C34_BackfillsSkippedLevels ==
    [][(LevelsStep /\ levels.begun) =>
          LET level == frame_level(levels'.frame)
              old == levels.current_episode
              new == levels'.current_episode
              d == level.n - levels.last_level
          IN  /\ level.none =>
                    /\ new.levels_steps = old.levels_steps
                    /\ new.ascending_levels_steps = old.ascending_levels_steps
                    /\ levels'.last_level = levels.last_level
              /\ (~level.none /\ d >= 0) =>
                    /\ Extended(old.levels_steps, new.levels_steps, d, new.steps)
                    /\ new.ascending_levels_steps = old.ascending_levels_steps
                    /\ levels'.last_level = level.n
              /\ (~level.none /\ d < 0) =>
                    /\ Extended(old.ascending_levels_steps, new.ascending_levels_steps,
                                0 - d, new.steps)
                    /\ new.levels_steps = old.levels_steps
                    /\ levels'.last_level = level.n
              /\ levels'.descends => Len(new.levels_steps) = levels'.last_level - 1]_vars

\* the second step of a run went from level 1 to level 3, and a later step
\* showed no status bar
C34_TwoLevelsInOneStep ==
    /\ levels # <<>>
    /\ levels.begun
    /\ levels.current_episode.levels_steps = <<2, 2>>
    /\ levels.last_level = 3
    /\ levels.current_episode.steps = 3
    /\ frame_level(levels.frame).none

\* C35: a RogueOptions built with a seed and fixed_seed = True puts that
\* seed in every argument list; built with fixed_seed = False it puts the
\* given seed in the first list, and two of them built with the same seed
\* generate the same lists.
C35_SeedKept ==
    \A i \in DOMAIN options :
       LET o == options[i] IN
       (~o.set /\ o.seed # NoSeed) =>
          /\ o.fixed_seed => \A k \in DOMAIN o.args : o.args[k] = o.seed
          /\ (~o.fixed_seed /\ o.args # <<>>) => o.args[1] = o.seed
          /\ \A j \in DOMAIN options :
                (~o.fixed_seed /\ ~options[j].fixed_seed /\ ~options[j].set
                 /\ options[j].seed = o.seed)
                   => \A k \in DOMAIN o.args \cap DOMAIN options[j].args :
                         o.args[k] = options[j].args[k]

\* C36: in what a step of send_command computes for its return value, won
\* and lost are never both true, and lost is true exactly when the goal is
\* not achieved and the evaluator asked to stop or the new screen is a
\* game-over screen.
C36_WonLostExclusive ==
    ret.step # 0 =>
       /\ ~(ret.won /\ ret.lost)
       /\ ret.lost = (~ret.won /\ (ret.stop \/ ret.dead))

\* send_command has returned its tuple
C36_TupleReturned ==
    /\ ret.call = "send_command" /\ ret.raised = "none" /\ ret.step = 1
    /\ ~ret.lost /\ ~ret.won /\ ~ret.stop /\ ~ret.dead

\* C37: between two on_run_begin calls on_run_end is called at most once,
\* also when commands are sent after the step that ended the run.
C37_OneRunEndPerRun == robs.end_calls <= 1

\* C38: _dismiss_all_messages writes a dismissal keystroke only when no
\* dismissal keystroke written before is still unread by the game.
C38_OneKeyPerPrompt ==
    [][(DismissWrite /\ inq' # inq)
          => \A i \in 1..Len(inq) : inq[i] \notin {"space", "backslash", "e"}]_vars

\* C39: after every update_history call the history holds at most histsize
\* transitions: the new one first, then the ones it held in their order,
\* the oldest (last) removed when the bound is exceeded.
C39_BoundedFifo ==
    [][HistUpdate =>
          /\ Len(history'.q) <= history'.histsize
          /\ \A i \in 1..Len(history'.q) :
                history'.q[i] = IF i = 1 THEN history'.n ELSE history.q[i - 1]
          /\ Len(history'.q) >= IF Len(history.q) < history.histsize
                                THEN Len(history.q) + 1 ELSE history.histsize]_vars

====
